---------------------------- MODULE Spec2Model ----------------------------
(***************************************************************************)
(* Bounded multi-producer/multi-consumer queue of src/MPMCQueue.h.         *)
(*                                                                         *)
(* The queue is a ring of m_capacity slots, each a version counter and a   *)
(* payload, and two position counters m_head and m_tail.  Every thread     *)
(* executes try_enqueue or try_dequeue as a sequence of atomic steps:      *)
(*   counter load, version load, CAS on the counter, payload access,       *)
(*   version store.                                                        *)
(* Atomic accesses are interleaved (sequentially consistent); the payload  *)
(* is an ordinary object, so two unordered conflicting payload accesses    *)
(* are a data race whose result is any value.                              *)
(***************************************************************************)
EXTENDS Naturals, Integers, Sequences, FiniteSets

\* Bound of the concurrent model.
MaxCapacity == 2
\* Bound of the sequential model (calls one at a time).
SeqMaxCapacity == 4

VARIABLES
    m_capacity,   \* size_t m_capacity
    m_head,       \* AlignedAtomicU64 m_head
    m_tail,       \* AlignedAtomicU64 m_tail
    version,      \* m_items[i].version
    value,        \* m_items[i].value
    pc,           \* position of each thread inside its call
    pos,          \* the local `tail` / `head` of the call
    arg,          \* the `value` argument of the producer's call
    out,          \* the `out` argument of the consumer's call (the caller logs
                  \* a returned value in deqDone and passes a fresh object next)
    ret,          \* result of the thread's last finished call
    steps,        \* atomic steps the current call has taken
    nprod, ncons, \* number of producer / consumer threads
    nvals,        \* number of distinct values the producers offer: one more than
                  \* the capacity, so that the ring wraps around
    nextVal,      \* nextVal[p]: the next value producer p will offer
    enqDone,      \* values whose try_enqueue returned true, in return order
    deqDone,      \* values returned by successful try_dequeue, in return order
    claimedE,     \* <<tail, value>> of every CAS on m_tail that succeeded
    claimedD,     \* head of every CAS on m_head that succeeded
    unread,       \* unread[i]: slot i holds a payload written and not yet read
    halted        \* the thread that is never scheduled again (0: none)

vars == <<m_capacity, m_head, m_tail, version, value, pc, pos, arg, out, ret,
          steps, nprod, ncons, nvals, nextVal, enqDone, deqDone, claimedE,
          claimedD, unread, halted>>

shared == <<m_head, m_tail, version, value>>
config == <<m_capacity, nprod, ncons, nvals>>

\* Thread identities: the threads that call try_enqueue, and those that call
\* try_dequeue; the first nprod producers and the first ncons consumers run.
ProducerIds == {1, 2}
ConsumerIds == {3, 4}
ThreadIds == ProducerIds \cup ConsumerIds
Producers == {t \in ProducerIds : t <= nprod}
Consumers == {t \in ConsumerIds : t <= Cardinality(ProducerIds) + ncons}
Threads == Producers \cup Consumers

\* The payload of a slot never written (storage comes from _aligned_malloc).
Unwritten == 0

\* A payload whose assignment stopped partway.
Partial == -1

\* m_items[n % m_capacity]
Slot(n) == n % m_capacity

\* compare_exchange_strong(expected, desired): succeeds iff the counter still
\* holds the expected value.
CasAlways(current, expected) == TRUE
CasSucceeds(current, expected) == current = expected

\* try_enqueue line 33: the slot is eligible iff its version equals tail.
EnqEligibleOff(ver, tail) == ver <= tail
EnqEligible(ver, tail) == ver = tail

\* try_dequeue line 58: the slot is readable iff its version equals head + 1.
DeqEligibleOff(ver, head) == ver = head
DeqEligible(ver, head) == ver = head + 1

\* try_enqueue line 47: the version published with the payload.
PublishVersionOff(tail) == tail + 2
PublishVersion(tail) == tail + 1

\* try_dequeue line 71: the version that frees the slot for the next cycle.
ReleaseVersionOff(head) == head + 1
ReleaseVersion(head) == head + m_capacity

\* The threads whose payload write to t's slot is unordered with t's own
\* payload access: those at their payload write of the same slot.
RacingWriters(t) ==
    {u \in Producers \ {t} : pc[u] = "val" /\ Slot(pos[u]) = Slot(pos[t])}

\* The outcomes of a payload access that races with those writes: the value
\* the access would have moved alone, a value being written, or a torn one
\* (written as Unwritten).
RaceOutcomes(t, alone) ==
    IF RacingWriters(t) = {}
    THEN {alone}
    ELSE {alone, Unwritten} \cup {arg[u] : u \in RacingWriters(t)}

Running(t) == halted # t
AllIdle == \A t \in ThreadIds : pc[t] = "idle"

\* MPMCQueue( size_t capacity ), lines 9-19.
Construct(capacity) ==
    /\ m_capacity = capacity
    /\ m_head = 0
    /\ m_tail = 0
    /\ version = [i \in 0..(capacity - 1) |-> i]
    /\ value = [i \in 0..(capacity - 1) |-> Unwritten]
    /\ unread = [i \in 0..(capacity - 1) |-> FALSE]

InitThreads ==
    /\ pc = [t \in ThreadIds |-> "idle"]
    /\ pos = [t \in ThreadIds |-> 0]
    /\ arg = [t \in ThreadIds |-> Unwritten]
    /\ out = [t \in ThreadIds |-> Unwritten]
    /\ ret = [t \in ThreadIds |-> "none"]
    /\ steps = [t \in ThreadIds |-> 0]
    /\ nextVal = [t \in ThreadIds |-> t]
    /\ enqDone = <<>>
    /\ deqDone = <<>>
    /\ claimedE = <<>>
    /\ claimedD = <<>>
    /\ halted = 0

Init ==
    /\ \E capacity \in 1..MaxCapacity : Construct(capacity)
    /\ nprod \in 1..Cardinality(ProducerIds)
    /\ ncons \in 1..Cardinality(ConsumerIds)
    /\ nprod + ncons = Cardinality(ThreadIds) => m_capacity = 2
    /\ nvals = m_capacity + 1
    /\ InitThreads

SeqInit ==
    /\ \E capacity \in 1..SeqMaxCapacity : Construct(capacity)
    /\ nvals = m_capacity + 1
    /\ nprod = 1
    /\ ncons = 1
    /\ InitThreads

\* A call that loops back to its counter load instead of returning false.
RetryInternally(t, result) ==
    IF result = "false"
    THEN /\ pc' = [pc EXCEPT ![t] = "ver"]
         /\ pos' = [pos EXCEPT ![t] = IF t \in Producers THEN m_tail ELSE m_head]
         /\ steps' = [steps EXCEPT ![t] = @ + 1]
         /\ UNCHANGED ret
    ELSE /\ pc' = [pc EXCEPT ![t] = "idle"]
         /\ ret' = [ret EXCEPT ![t] = result]
         /\ pos' = [pos EXCEPT ![t] = 0]
         /\ steps' = [steps EXCEPT ![t] = 0]

\* A call that reports false whatever it has done.
ReturnFalse(t, result) ==
    /\ pc' = [pc EXCEPT ![t] = "idle"]
    /\ ret' = [ret EXCEPT ![t] = "false"]
    /\ pos' = [pos EXCEPT ![t] = 0]
    /\ steps' = [steps EXCEPT ![t] = 0]

\* The call returns: its local `tail` / `head` goes out of scope.
Return(t, result) ==
    /\ pc' = [pc EXCEPT ![t] = "idle"]
    /\ ret' = [ret EXCEPT ![t] = result]
    /\ pos' = [pos EXCEPT ![t] = 0]
    /\ steps' = [steps EXCEPT ![t] = 0]

Goto(t, label) ==
    /\ pc' = [pc EXCEPT ![t] = label]
    /\ steps' = [steps EXCEPT ![t] = @ + 1]
    /\ UNCHANGED <<ret, pos>>

---------------------------------------------------------------------------
\* bool try_enqueue( const T& value )

\* line 31: uint64_t tail = m_tail.load( relaxed ).  The caller passes the
\* value of its last call when that call returned false, and else its next
\* value: producer p offers p, p + nprod, p + 2 * nprod, ... up to nvals.
EnqLoadTail(t) ==
    /\ Running(t)
    /\ pc[t] = "idle"
    /\ IF arg[t] # Unwritten
       THEN UNCHANGED <<arg, nextVal>>
       ELSE /\ nextVal[t] <= nvals
            /\ arg' = [arg EXCEPT ![t] = nextVal[t]]
            /\ nextVal' = [nextVal EXCEPT ![t] = @ + nprod]
    /\ pos' = [pos EXCEPT ![t] = m_tail]
    /\ pc' = [pc EXCEPT ![t] = "ver"]
    /\ steps' = [steps EXCEPT ![t] = 1]
    /\ UNCHANGED <<shared, config, out, ret, enqDone, deqDone, claimedE, claimedD,
                   unread, halted>>

\* lines 33-36: version load and comparison with tail.
EnqLoadVersion(t) ==
    /\ Running(t)
    /\ pc[t] = "ver"
    /\ IF EnqEligible(version[Slot(pos[t])], pos[t])
       THEN Goto(t, "cas")
       ELSE Return(t, "false")
    /\ UNCHANGED <<shared, config, arg, out, nextVal, enqDone, deqDone,
                   claimedE, claimedD, unread, halted>>

\* lines 38-41: m_tail.compare_exchange_strong( tail, tail + 1 ).
EnqCas(t) ==
    /\ Running(t)
    /\ pc[t] = "cas"
    /\ IF CasSucceeds(m_tail, pos[t])
       THEN /\ m_tail' = pos[t] + 1
            /\ claimedE' = Append(claimedE, <<pos[t], arg[t]>>)
            /\ Goto(t, "val")
       ELSE /\ UNCHANGED <<m_tail, claimedE>>
            /\ Return(t, "false")
    /\ UNCHANGED <<m_head, version, value, config, arg, out, nextVal,
                   enqDone, deqDone, claimedD, unread, halted>>

\* line 43: m_items[tail % m_capacity].value = value.
EnqWriteValue(t) ==
    /\ Running(t)
    /\ pc[t] = "val"
    /\ \E v \in RaceOutcomes(t, arg[t]) :
          value' = [value EXCEPT ![Slot(pos[t])] = v]
    /\ unread' = [unread EXCEPT ![Slot(pos[t])] = TRUE]
    /\ Goto(t, "pub")
    /\ UNCHANGED <<m_head, m_tail, version, config, arg, out, nextVal,
                   enqDone, deqDone, claimedE, claimedD, halted>>

\* lines 47-49: version.store( tail + 1, release ); return true.
EnqPublish(t) ==
    /\ Running(t)
    /\ pc[t] = "pub"
    /\ version' = [version EXCEPT ![Slot(pos[t])] = PublishVersion(pos[t])]
    /\ enqDone' = Append(enqDone, arg[t])
    /\ arg' = [arg EXCEPT ![t] = Unwritten]
    /\ Return(t, "true")
    /\ UNCHANGED <<m_head, m_tail, value, config, out, nextVal, deqDone,
                   claimedE, claimedD, unread, halted>>

try_enqueue(t) ==
    \/ EnqLoadTail(t)
    \/ EnqLoadVersion(t)
    \/ EnqCas(t)
    \/ EnqWriteValue(t)
    \/ EnqPublish(t)

---------------------------------------------------------------------------
\* bool try_dequeue( T& out )

\* line 54: uint64_t head = m_head.load( relaxed ).
DeqLoadHead(t) ==
    /\ Running(t)
    /\ pc[t] = "idle"
    /\ pos' = [pos EXCEPT ![t] = m_head]
    /\ pc' = [pc EXCEPT ![t] = "ver"]
    /\ steps' = [steps EXCEPT ![t] = 1]
    /\ UNCHANGED <<shared, config, arg, out, ret, nextVal, enqDone, deqDone,
                   claimedE, claimedD, unread, halted>>

\* lines 58-61: version load and comparison with head + 1.
DeqLoadVersion(t) ==
    /\ Running(t)
    /\ pc[t] = "ver"
    /\ IF DeqEligible(version[Slot(pos[t])], pos[t])
       THEN Goto(t, "cas")
       ELSE Return(t, "false")
    /\ UNCHANGED <<shared, config, arg, out, nextVal, enqDone, deqDone,
                   claimedE, claimedD, unread, halted>>

\* lines 63-66: m_head.compare_exchange_strong( head, head + 1 ).
DeqCas(t) ==
    /\ Running(t)
    /\ pc[t] = "cas"
    /\ IF CasSucceeds(m_head, pos[t])
       THEN /\ m_head' = pos[t] + 1
            /\ claimedD' = Append(claimedD, pos[t])
            /\ Goto(t, "val")
       ELSE /\ UNCHANGED <<m_head, claimedD>>
            /\ Return(t, "false")
    /\ UNCHANGED <<m_tail, version, value, config, arg, out, nextVal,
                   enqDone, deqDone, claimedE, unread, halted>>

\* line 68: out = m_items[head % m_capacity].value.
DeqReadValue(t) ==
    /\ Running(t)
    /\ pc[t] = "val"
    /\ \E v \in RaceOutcomes(t, value[Slot(pos[t])]) :
          out' = [out EXCEPT ![t] = v]
    /\ unread' = [unread EXCEPT ![Slot(pos[t])] = FALSE]
    /\ Goto(t, "pub")
    /\ UNCHANGED <<shared, config, arg, nextVal, enqDone, deqDone,
                   claimedE, claimedD, halted>>

\* lines 71-73: version.store( head + m_capacity, release ); return true.
DeqRelease(t) ==
    /\ Running(t)
    /\ pc[t] = "pub"
    /\ version' = [version EXCEPT ![Slot(pos[t])] = ReleaseVersion(pos[t])]
    /\ deqDone' = Append(deqDone, out[t])
    /\ out' = [out EXCEPT ![t] = Unwritten]
    /\ Return(t, "true")
    /\ UNCHANGED <<m_head, m_tail, value, config, arg, nextVal,
                   enqDone, claimedE, claimedD, unread, halted>>

try_dequeue(t) ==
    \/ DeqLoadHead(t)
    \/ DeqLoadVersion(t)
    \/ DeqCas(t)
    \/ DeqReadValue(t)
    \/ DeqRelease(t)

---------------------------------------------------------------------------
\* Any number of threads call try_enqueue and try_dequeue concurrently.
Next ==
    \/ \E t \in Producers : EnqLoadTail(t)
    \/ \E t \in Producers : EnqLoadVersion(t)
    \/ \E t \in Producers : EnqCas(t)
    \/ \E t \in Producers : EnqWriteValue(t)
    \/ \E t \in Producers : EnqPublish(t)
    \/ \E t \in Consumers : DeqLoadHead(t)
    \/ \E t \in Consumers : DeqLoadVersion(t)
    \/ \E t \in Consumers : DeqCas(t)
    \/ \E t \in Consumers : DeqReadValue(t)
    \/ \E t \in Consumers : DeqRelease(t)

Spec == Init /\ [][Next]_vars

\* Calls one at a time: a call starts only when no call is in flight.
SeqNext ==
    \/ \E t \in Producers : AllIdle /\ EnqLoadTail(t)
    \/ \E t \in Producers : EnqLoadVersion(t)
    \/ \E t \in Producers : EnqCas(t)
    \/ \E t \in Producers : EnqWriteValue(t)
    \/ \E t \in Producers : EnqPublish(t)
    \/ \E t \in Consumers : AllIdle /\ DeqLoadHead(t)
    \/ \E t \in Consumers : DeqLoadVersion(t)
    \/ \E t \in Consumers : DeqCas(t)
    \/ \E t \in Consumers : DeqReadValue(t)
    \/ \E t \in Consumers : DeqRelease(t)

SeqSpec == SeqInit /\ [][SeqNext]_vars

\* The scheduler stops one thread for good somewhere inside a call.
Halt(t) ==
    /\ halted = 0
    /\ pc[t] # "idle"
    /\ halted' = t
    /\ UNCHANGED <<shared, config, pc, pos, arg, out, ret, steps, nextVal,
                   enqDone, deqDone, claimedE, claimedD, unread>>

HaltNext ==
    \/ \E t \in Producers : EnqLoadTail(t)
    \/ \E t \in Producers : EnqLoadVersion(t)
    \/ \E t \in Producers : EnqCas(t)
    \/ \E t \in Producers : EnqWriteValue(t)
    \/ \E t \in Producers : EnqPublish(t)
    \/ \E t \in Consumers : DeqLoadHead(t)
    \/ \E t \in Consumers : DeqLoadVersion(t)
    \/ \E t \in Consumers : DeqCas(t)
    \/ \E t \in Consumers : DeqReadValue(t)
    \/ \E t \in Consumers : DeqRelease(t)
    \/ \E t \in Threads : Halt(t)

\* The next step of thread t, whichever call it is in.
Step(t) ==
    \/ t \in Producers /\ try_enqueue(t)
    \/ t \in Consumers /\ try_dequeue(t)

\* Every thread that is not halted keeps taking steps and keeps retrying.
Fairness == \A t \in ThreadIds : WF_vars(Step(t))

\* Queues of capacity 2 and more, where an enqueue on a full queue fails,
\* with three threads: the one that may be halted and two that keep running.
HaltInit ==
    /\ Init
    /\ m_capacity >= 2
    /\ nprod + ncons < Cardinality(ThreadIds)

HaltSpec == HaltInit /\ [][HaltNext]_vars /\ Fairness

\* Queues of capacity 2 and more with every thread running.
FairInit ==
    /\ Init
    /\ m_capacity >= 2

FairSpec == FairInit /\ [][Next]_vars /\ Fairness

\* A try_enqueue that stores its version before the payload assignment is
\* done: the assignment fails with n + 1 already in the slot.
EnqPublishesThenFails(t) ==
    /\ Running(t)
    /\ pc[t] = "val"
    /\ value' = [value EXCEPT ![Slot(pos[t])] = Partial]
    /\ version' = [version EXCEPT ![Slot(pos[t])] = PublishVersion(pos[t])]
    /\ pc' = [pc EXCEPT ![t] = "threw"]
    /\ ret' = [ret EXCEPT ![t] = "threw"]
    /\ steps' = [steps EXCEPT ![t] = @ + 1]
    /\ UNCHANGED <<m_head, m_tail, config, pos, arg, out, nextVal, enqDone,
                   deqDone, claimedE, claimedD, unread, halted>>

\* line 43 with a payload type whose assignment fails partway: T::operator=
\* has written part of the payload and throws.  try_enqueue catches nothing,
\* so the call is left at line 43: lines 47 and 49 are not executed, and the
\* thread, still holding sequence number pos[t], makes no further call.
EnqWriteFails(t) ==
    /\ Running(t)
    /\ pc[t] = "val"
    /\ value' = [value EXCEPT ![Slot(pos[t])] = Partial]
    /\ pc' = [pc EXCEPT ![t] = "threw"]
    /\ ret' = [ret EXCEPT ![t] = "threw"]
    /\ steps' = [steps EXCEPT ![t] = @ + 1]
    /\ UNCHANGED <<m_head, m_tail, version, config, pos, arg, out, nextVal,
                   enqDone, deqDone, claimedE, claimedD, unread, halted>>

\* Calls with a payload assignment that may fail.
FailNext ==
    \/ \E t \in Producers : EnqLoadTail(t)
    \/ \E t \in Producers : EnqLoadVersion(t)
    \/ \E t \in Producers : EnqCas(t)
    \/ \E t \in Producers : EnqWriteValue(t)
    \/ \E t \in Producers : EnqPublish(t)
    \/ \E t \in Consumers : DeqLoadHead(t)
    \/ \E t \in Consumers : DeqLoadVersion(t)
    \/ \E t \in Consumers : DeqCas(t)
    \/ \E t \in Consumers : DeqReadValue(t)
    \/ \E t \in Consumers : DeqRelease(t)
    \/ \E t \in Producers : EnqWriteFails(t)

\* Every thread keeps taking the steps of its calls; a failure of the payload
\* assignment may happen or not.
FailSpec == Init /\ [][FailNext]_vars /\ Fairness


---------------------------------------------------------------------------
\* Operators used to state the properties.

Count(s, v) == Cardinality({i \in DOMAIN s : s[i] = v})

IsPrefix(s, r) == Len(s) <= Len(r) /\ \A i \in DOMAIN s : s[i] = r[i]

\* Every value has been accepted, every claimed sequence number has been
\* claimed by a consumer, and no call is in flight.
Drained ==
    /\ AllIdle
    /\ Len(enqDone) = nvals
    /\ m_head = m_tail

\* C1: no loss and no duplication under concurrency.  For capacity >= 2, once
\* every producer has had all its values accepted and the queue is drained
\* and idle, each value passed to a successful try_enqueue has been returned
\* by exactly one successful try_dequeue, and nothing else has been returned.
C1_NoLossNoDuplication ==
    (m_capacity >= 2 /\ Drained) =>
        /\ Len(deqDone) = Len(enqDone)
        /\ \A v \in 1..nvals : Count(enqDone, v) = 1 /\ Count(deqDone, v) = 1

C1_Witness ==
    /\ m_capacity = 2
    /\ nprod = 2
    /\ Drained
    /\ Len(deqDone) = nvals

\* C3: single producer, single consumer, capacity >= 2: at every moment the
\* values returned by successful try_dequeue calls are, in order, a prefix of
\* the values accepted by successful try_enqueue calls.
C3_SpscFifo ==
    (m_capacity >= 2 /\ nprod = 1 /\ ncons = 1) => IsPrefix(deqDone, enqDone)

C3_Witness ==
    /\ m_capacity = 2
    /\ nprod = 1
    /\ ncons = 1
    /\ deqDone = <<1, 2, 3>>

\* C5: the sequence numbers claimed by the CAS on m_tail are unique and
\* gap-free: the k-th successful CAS claimed tail k - 1, so the set of claimed
\* numbers is exactly 0..m_tail-1 and no number is claimed twice.
C5_ClaimsUniqueGapFree ==
    /\ Len(claimedE) = m_tail
    /\ \A i \in DOMAIN claimedE : claimedE[i][1] = i - 1

\* Two producers raced: the second producer claimed the lower number.
C5_Witness ==
    /\ nprod = 2
    /\ Len(claimedE) >= 2
    /\ claimedE[1] = <<0, 2>>
    /\ claimedE[2] = <<1, 1>>

\* C2: from a fresh queue of capacity N >= 1 and with no try_dequeue call,
\* exactly the first N try_enqueue calls return true: no call fails while
\* fewer than N values are accepted, never more than N are accepted, and a
\* failing call leaves the queue as the first N calls left it (head 0, tail N,
\* slot i at version i + 1 holding the (i+1)-th value).
NoDequeueCalled == \A c \in Consumers : pc[c] = "idle" /\ ret[c] = "none"

C2_ExactlyCapacityEnqueues ==
    NoDequeueCalled =>
        /\ Len(enqDone) <= m_capacity
        /\ \A p \in Producers :
              (pc[p] = "idle" /\ ret[p] = "false") =>
                  /\ Len(enqDone) = m_capacity
                  /\ m_head = 0
                  /\ m_tail = m_capacity
                  /\ \A i \in 0..(m_capacity - 1) :
                        version[i] = i + 1 /\ value[i] = enqDone[i + 1]

\* C6: try_dequeue on an empty queue with no other call in flight (the call
\* loads head while head = tail and runs alone) returns false from its
\* version load and changes neither head, tail, any version, any payload nor
\* `out`.
EmptyAndIdleBut(t) ==
    /\ m_head = m_tail
    /\ \A u \in ThreadIds \ {t} : pc[u] = "idle"
    /\ pc[t] = "ver" => pos[t] = m_head

C6_DequeueOnEmpty ==
    [][\A t \in Consumers :
          (EmptyAndIdleBut(t) /\ pc[t] \in {"idle", "ver"} /\ pc'[t] # pc[t]) =>
              /\ UNCHANGED <<shared, out>>
              /\ pc[t] = "idle" => pc'[t] = "ver"
              /\ pc[t] = "ver" => pc'[t] = "idle" /\ ret'[t] = "false"]_vars

\* The only consumer's last call failed after every value had been dequeued.
C6_Witness ==
    /\ ncons = 1
    /\ Drained
    /\ deqDone = enqDone
    /\ \E c \in Consumers : ret[c] = "false" /\ out[c] = Unwritten

\* C8: with calls one at a time and capacity >= 2 every call agrees with a
\* FIFO sequence bounded by the capacity.  The sequence is the accepted values
\* not yet returned; try_enqueue(v) returns true and appends v iff it holds
\* fewer than capacity values, try_dequeue returns true with its oldest value
\* iff it is not empty, and a call that returns false changes nothing.
AbsQueue == SubSeq(enqDone, Len(deqDone) + 1, Len(enqDone))

C8_SequentialFifo ==
    [][\A t \in Threads :
          (m_capacity >= 2 /\ pc[t] # "idle" /\ pc'[t] = "idle") =>
              IF t \in Producers
              THEN IF Len(AbsQueue) < m_capacity
                   THEN /\ ret'[t] = "true"
                        /\ enqDone' = Append(enqDone, arg[t])
                        /\ deqDone' = deqDone
                   ELSE /\ ret'[t] = "false"
                        /\ UNCHANGED <<shared, enqDone, deqDone>>
              ELSE IF AbsQueue # <<>>
                   THEN /\ ret'[t] = "true"
                        /\ deqDone' = Append(deqDone, Head(AbsQueue))
                        /\ enqDone' = enqDone
                   ELSE /\ ret'[t] = "false"
                        /\ UNCHANGED <<shared, enqDone, deqDone>>]_vars

\* Capacity 4: A..D accepted, E refused, then accepted after one dequeue; all
\* five returned in order and the last try_dequeue found the queue empty.
C8_Witness ==
    /\ m_capacity = 4
    /\ AllIdle
    /\ enqDone = <<1, 2, 3, 4, 5>>
    /\ deqDone = <<1, 2, 3, 4, 5>>
    /\ \E c \in Consumers : ret[c] = "false"

\* C9: a call never waits and never retries: a thread inside a call always
\* has its next step enabled, whatever the other threads do, and has taken at
\* most four steps, so the call returns with its fifth step at the latest.
C9_NonBlocking ==
    \A t \in Threads :
        /\ steps[t] <= 4
        /\ pc[t] = "idle" <=> steps[t] = 0
        /\ pc[t] # "idle" => ENABLED Step(t)

C9_Witness ==
    \E p \in Producers, c \in Consumers :
        /\ pc[p] = "pub" /\ steps[p] = 4
        /\ pc[c] = "pub" /\ steps[c] = 4

\* C10: for capacity >= 2 at most one thread is between its successful CAS
\* and its version store on any ring index; a consumer about to read finds
\* the slot published with the value of its sequence number still unread, and
\* a producer about to write finds the previous payload read out.
Owners(i) == {t \in Threads : pc[t] \in {"val", "pub"} /\ Slot(pos[t]) = i}

C10_ExclusiveOwnership ==
    m_capacity >= 2 =>
        \A i \in 0..(m_capacity - 1) :
            /\ Cardinality(Owners(i)) <= 1
            /\ \A t \in Owners(i) :
                  pc[t] = "val" =>
                      IF t \in Producers
                      THEN ~unread[i]
                      ELSE unread[i] /\ version[i] = pos[t] + 1

\* A producer rewrites slot 0 for sequence 2 while a consumer reads slot 1.
C10_Witness ==
    /\ m_capacity = 2
    /\ \E p \in Producers, c \in Consumers :
          /\ pc[p] = "val" /\ pos[p] = 2
          /\ pc[c] = "val" /\ pos[c] = 1

\* The sequence number under which value v was claimed.
SeqOf(v) == CHOOSE n \in 0..m_tail : \E i \in DOMAIN claimedE : claimedE[i] = <<n, v>>

\* Every value whose try_enqueue has returned true has been claimed by a
\* try_dequeue.
StructurallyEmpty == \A i \in DOMAIN enqDone : SeqOf(enqDone[i]) < m_head

\* Sequence number n is not there for a consumer to take: no producer has
\* claimed it, or its producer has not published it yet, or a consumer has
\* claimed it already.
NotAvailable(n) ==
    \/ n >= m_tail
    \/ \E p \in Producers : pc[p] \in {"val", "pub"} /\ pos[p] = n
    \/ n < m_head

DeqReturnsFalse(t) == pc[t] \in {"ver", "cas"} /\ pc'[t] = "idle" /\ ret'[t] = "false"

\* C7 as stated: for capacity >= 2 a try_dequeue that returns false either
\* lost its CAS on head, or at its version load every value whose try_enqueue
\* had returned true had already been claimed by some try_dequeue.
C7_FalseOnlyEmptyOrCasLost ==
    [][\A t \in Consumers :
          (m_capacity >= 2 /\ DeqReturnsFalse(t)) =>
              (pc[t] = "cas" \/ StructurallyEmpty)]_vars

\* C7 amended: for capacity >= 2 a try_dequeue that returns false either lost
\* its CAS on head (head had moved on), or at its version load the sequence
\* number it had loaded from head was not available: not claimed by any
\* producer, claimed by a producer still inside try_enqueue, or already
\* claimed by another consumer.
C7_FalseOnlyUnavailableOrCasLost ==
    [][\A t \in Consumers :
          (m_capacity >= 2 /\ DeqReturnsFalse(t)) =>
              IF pc[t] = "cas" THEN m_head > pos[t] ELSE NotAvailable(pos[t])]_vars

\* A consumer was refused while sequence 1 was accepted and unclaimed, because
\* the producer of sequence 0 had not published yet.
C7_Witness ==
    /\ m_capacity = 2
    /\ m_head = 0
    /\ ~StructurallyEmpty
    /\ \E p \in Producers : pc[p] \in {"val", "pub"} /\ pos[p] = 0
    /\ \E c \in Consumers : pc[c] = "idle" /\ ret[c] = "false"

\* One thread has been halted, a value whose try_enqueue has returned true is
\* claimed by no try_dequeue, and a consumer keeps retrying.
DequeueDue ==
    /\ halted # 0
    /\ ~StructurallyEmpty
    /\ \E c \in Consumers : Running(c)

\* One thread has been halted, fewer than capacity sequence numbers are
\* claimed and not dequeued, and a producer with a value to enqueue keeps
\* retrying.
EnqueueDue ==
    /\ halted # 0
    /\ m_tail - m_head < m_capacity
    /\ \E p \in Producers : Running(p) /\ (arg[p] # Unwritten \/ nextVal[p] <= nvals)

\* The halted thread stopped between its successful CAS and its version store.
HaltedOwner == halted # 0 /\ pc[halted] \in {"val", "pub"}

\* The number of successful calls grows by one at a time, so it has grown as
\* soon as its parity has changed.
Parity == {0, 1}

\* C4 as stated: with one thread halted for good anywhere inside a call and
\* all others taking steps, a retried try_dequeue eventually returns true
\* whenever an accepted value is undequeued, and a retried try_enqueue
\* eventually returns true whenever tail - head < capacity.
C4_LockFreeProgress ==
    \A k \in Parity :
        /\ (DequeueDue /\ Len(deqDone) % 2 = k) ~> (Len(deqDone) % 2 # k)
        /\ (EnqueueDue /\ Len(enqDone) % 2 = k) ~> (Len(enqDone) % 2 # k)

\* C4 amended: for capacity >= 2 the same progress holds unless the halted
\* thread stopped between its successful CAS and its version store; a thread
\* halted there keeps its slot, and the calls that need that slot return false
\* for ever.
C4_ProgressUnlessOwnerHalted ==
    \A k \in Parity :
        /\ (m_capacity >= 2 /\ DequeueDue /\ Len(deqDone) % 2 = k)
              ~> (Len(deqDone) % 2 # k \/ HaltedOwner)
        /\ (m_capacity >= 2 /\ EnqueueDue /\ Len(enqDone) % 2 = k)
              ~> (Len(enqDone) % 2 # k \/ HaltedOwner)

\* A thread is halted before its CAS while a value is accepted and undequeued,
\* and a try_dequeue has since returned true.
C4_Witness ==
    /\ m_capacity = 2
    /\ halted # 0
    /\ pc[halted] \in {"ver", "cas"}
    /\ Len(enqDone) = nvals
    /\ Len(deqDone) = nvals

\* The largest sequence number a version can refer to.
SeqNumbers == 0..(m_tail + m_capacity)

\* Sequence number n has been claimed by a CAS on m_tail / on m_head.
ClaimedByEnqueue(n) == \E k \in DOMAIN claimedE : claimedE[k][1] = n
ClaimedByDequeue(n) == \E k \in DOMAIN claimedD : claimedD[k] = n

\* The try_enqueue that claimed n has stored its version (published n); the
\* try_dequeue that claimed n has stored its version (released n).
Published(n) ==
    /\ ClaimedByEnqueue(n)
    /\ ~\E p \in Producers : pc[p] \in {"val", "pub"} /\ pos[p] = n
Released(n) ==
    /\ ClaimedByDequeue(n)
    /\ ~\E c \in Consumers : pc[c] \in {"val", "pub"} /\ pos[c] = n

\* The slot of n is empty for n: the previous cycle, if any, is released and
\* n is not published.
EmptyFor(n) == (n < m_capacity \/ Released(n - m_capacity)) /\ ~Published(n)

\* The slot of n holds the published value of n, not yet released.
HoldsPublished(n) == Published(n) /\ ~Released(n)

VersionProtocol ==
    \A i \in 0..(m_capacity - 1) :
        /\ version[i] % m_capacity \in {i, (i + 1) % m_capacity}
        /\ \A n \in SeqNumbers :
              Slot(n) = i =>
                  /\ version[i] = n <=> EmptyFor(n)
                  /\ version[i] = n + 1 <=> HoldsPublished(n)

\* A step that changes a version is the store of a successful call: the
\* try_enqueue that claimed tail n stores n + 1, the try_dequeue that claimed
\* head n stores n + m_capacity, and the version grows.
VersionStore ==
    \A i \in 0..(m_capacity - 1) :
        version'[i] # version[i] =>
            /\ version'[i] > version[i]
            /\ \E t \in Threads :
                  /\ pc[t] = "pub" /\ Slot(pos[t]) = i
                  /\ pc'[t] = "idle" /\ ret'[t] = "true"
                  /\ version'[i] = IF t \in Producers
                                   THEN pos[t] + 1
                                   ELSE pos[t] + m_capacity

\* C11: slot version protocol.  Versions start at version[i] = i.  For
\* capacity >= 2, in every reachable state version[i] is congruent to i or to
\* i + 1 modulo the capacity; version[i] = n (n mod capacity = i) exactly while
\* the slot is empty for n, and version[i] = n + 1 exactly while it holds the
\* published, unreleased value of n.  Every store increases the version: a
\* successful try_enqueue that claimed n stores n + 1, a successful
\* try_dequeue that claimed n stores n + capacity.
C11_VersionProtocol ==
    /\ \A i \in 0..(m_capacity - 1) : version[i] = i
    /\ [](m_capacity >= 2 => VersionProtocol)
    /\ [][m_capacity >= 2 => VersionStore]_vars

\* The ring has wrapped: slot 0 holds the published value of sequence 2 and
\* slot 1, released by the dequeue of sequence 1, is empty for sequence 3.
C11_Witness ==
    /\ m_capacity = 2
    /\ version[0] = 3 /\ HoldsPublished(2)
    /\ version[1] = 3 /\ EmptyFor(3)

\* Value v was passed to the try_enqueue whose CAS claimed tail n.
EnqueuedAs(n, v) == \E k \in DOMAIN claimedE : claimedE[k] = <<n, v>>

\* C12: values are consumed following the sequence numbers.  For capacity
\* >= 2 and any number of producers and consumers, the value a try_dequeue
\* that claimed head n copies into `out`, and returns with true, is the value
\* passed to the try_enqueue that claimed tail n.
C12_ConsumedBySequenceNumber ==
    [][\A c \in Consumers :
          m_capacity >= 2 =>
              /\ (pc[c] = "val" /\ pc'[c] # "val") =>
                     EnqueuedAs(pos[c], out'[c])
              /\ (pc[c] = "pub" /\ pc'[c] # "pub") =>
                     /\ ret'[c] = "true"
                     /\ EnqueuedAs(pos[c], out[c])
                     /\ deqDone' = Append(deqDone, out[c])]_vars

\* With two producers and two consumers, the consumer that claimed sequence 2
\* (slot 0, second cycle) has copied out the value enqueued as sequence 2, and
\* sequences 0 and 1 were returned in the opposite order.
C12_Witness ==
    /\ m_capacity = 2
    /\ nprod = 2
    /\ ncons = 2
    /\ Len(deqDone) = 2
    /\ EnqueuedAs(1, deqDone[1])
    /\ EnqueuedAs(0, deqDone[2])
    /\ \E c \in Consumers : pc[c] = "pub" /\ pos[c] = 2 /\ EnqueuedAs(2, out[c])

\* Thread t takes a step of a call that does not get past its CAS: the
\* counter load, the version load, or the CAS or version check that fails.
FailingCallStep(t) ==
    /\ pc'[t] # pc[t]
    /\ \/ pc[t] \in {"idle", "ver"}
       \/ pc'[t] = "idle" /\ ret'[t] = "false"

\* C13: a failing call has no effect on shared state.  Under any interleaving
\* a call returns false only from its version check or from its CAS, and no
\* step of such a call changes head, tail, a slot version or a slot payload;
\* a failing try_dequeue does not write to `out` either.
C13_FailingCallNoEffect ==
    [][\A t \in Threads :
          /\ FailingCallStep(t) =>
                 /\ UNCHANGED <<m_head, m_tail, version, value>>
                 /\ out'[t] = out[t]
          /\ (pc'[t] # pc[t] /\ pc'[t] = "idle" /\ ret'[t] = "false") =>
                 /\ pc[t] \in {"ver", "cas"}
                 /\ pc[t] = "ver" =>
                        version[Slot(pos[t])] #
                            IF t \in Producers THEN pos[t] ELSE pos[t] + 1
                 /\ pc[t] = "cas" =>
                        pos[t] # IF t \in Producers THEN m_tail ELSE m_head]_vars

\* A producer and a consumer have returned false on a queue holding a value,
\* while another consumer is about to lose its CAS.
C13_Witness ==
    /\ m_tail > m_head
    /\ \E p \in Producers : pc[p] = "idle" /\ ret[p] = "false"
    /\ \E c \in Consumers, d \in Consumers :
          /\ pc[c] = "idle" /\ ret[c] = "false" /\ out[c] = Unwritten
          /\ pc[d] = "cas" /\ pos[d] # m_head

\* The threads between their successful CAS and their return.
Claimers(S) == {t \in S : pc[t] \in {"val", "pub"}}

\* A step changes m_tail only by the CAS of a producer and m_head only by the
\* CAS of a consumer, by +1; a thread past its CAS runs on to return true.
CounterStep ==
    /\ m_tail' # m_tail =>
           /\ m_tail' = m_tail + 1
           /\ \E p \in Producers : pc[p] = "cas" /\ pc'[p] = "val"
    /\ m_head' # m_head =>
           /\ m_head' = m_head + 1
           /\ \E c \in Consumers : pc[c] = "cas" /\ pc'[c] = "val"
    /\ \A t \in Threads :
           /\ (pc[t] = "val" /\ pc'[t] # "val") => pc'[t] = "pub"
           /\ (pc[t] = "pub" /\ pc'[t] # "pub") =>
                  pc'[t] = "idle" /\ ret'[t] = "true"

\* C14: head and tail never decrease.  In every step tail changes only by +1
\* and only in a try_enqueue call that goes on to return true, head only by
\* +1 and only in a try_dequeue call that goes on to return true; tail is the
\* number of successful enqueue claims (calls that returned true or are past
\* their CAS) and head the number of successful dequeue claims.
C14_CountersMonotone ==
    /\ [][CounterStep]_vars
    /\ [](/\ m_tail = Len(claimedE)
          /\ m_head = Len(claimedD)
          /\ m_tail = Len(enqDone) + Cardinality(Claimers(Producers))
          /\ m_head = Len(deqDone) + Cardinality(Claimers(Consumers)))

\* The tail has moved past the ring size; one call of each kind is past its
\* CAS, two enqueue calls and one dequeue call have returned true.
C14_Witness ==
    /\ m_capacity = 2
    /\ m_tail = 3
    /\ m_head = 2
    /\ Len(enqDone) = 2
    /\ Len(deqDone) = 1
    /\ Cardinality(Claimers(Producers)) = 1
    /\ Cardinality(Claimers(Consumers)) = 1

\* C15: occupancy bound.  For capacity >= 2 every reachable state satisfies
\* 0 <= tail - head <= capacity: every sequence number claimed by a consumer
\* has been claimed by a producer, and every sequence number claimed by a
\* producer is less than head + capacity.
C15_OccupancyBound ==
    m_capacity >= 2 =>
        /\ m_head <= m_tail
        /\ m_tail - m_head <= m_capacity
        /\ \A k \in DOMAIN claimedD : ClaimedByEnqueue(claimedD[k])
        /\ \A k \in DOMAIN claimedE : claimedE[k][1] < m_head + m_capacity

\* The ring is full in its second cycle: sequences 1 and 2 are published and
\* unclaimed, and no call is in flight.
C15_Witness ==
    /\ m_capacity = 2
    /\ m_head = 1
    /\ m_tail = 3
    /\ AllIdle
    /\ HoldsPublished(1)
    /\ HoldsPublished(2)

\* No thread but t is inside a call, and t, if inside one, has loaded the
\* present value of its counter: the state is as if t had started its call
\* in the quiescent state and run alone.
QuiescentBut(t) ==
    /\ \A u \in ThreadIds \ {t} : pc[u] = "idle"
    /\ pc[t] # "idle" =>
           pos[t] = IF t \in Producers THEN m_tail ELSE m_head

\* C16: exact answers at quiescence.  For capacity >= 2, a call that starts
\* in a reachable state with no thread inside an operation and runs alone
\* gets past its version check and its CAS, and then returns true, if and
\* only if tail - head < capacity for try_enqueue, head < tail for
\* try_dequeue; otherwise it returns false.
C16_ExactAtQuiescence ==
    [][\A t \in Threads :
          (m_capacity >= 2 /\ QuiescentBut(t) /\ pc'[t] # pc[t]) =>
              /\ pc[t] \in {"ver", "cas"} =>
                     /\ pc'[t] # "idle" <=>
                            IF t \in Producers
                            THEN m_tail - m_head < m_capacity
                            ELSE m_head < m_tail
                     /\ pc'[t] = "idle" => ret'[t] = "false"
              /\ pc[t] = "cas" => pc'[t] = "val"]_vars

\* The only producer, with no try_dequeue ever called, was refused on the
\* full ring.
C16_Witness ==
    /\ m_capacity = 2
    /\ nprod = 1
    /\ NoDequeueCalled
    /\ AllIdle
    /\ m_tail - m_head = m_capacity
    /\ \E p \in Producers : ret[p] = "false" /\ arg[p] # Unwritten

\* A producer has a value to enqueue and keeps calling try_enqueue with it.
ProducerRetrying == \E p \in Producers : arg[p] # Unwritten \/ nextVal[p] <= nvals

\* C17: progress under fair scheduling.  For capacity >= 2, when every thread
\* keeps taking its next step and keeps retrying (weak fairness on all
\* threads, none halted): whenever head < tail, some try_dequeue eventually
\* returns true and head advances; whenever tail - head < capacity and a
\* producer has a value to enqueue, some try_enqueue eventually returns true.
C17_ProgressUnderFairness ==
    \A k \in Parity :
        /\ (m_capacity >= 2 /\ m_head < m_tail /\ Len(deqDone) % 2 = k)
              ~> (Len(deqDone) % 2 # k)
        /\ (m_capacity >= 2 /\ m_head < m_tail /\ m_head % 2 = k)
              ~> (m_head % 2 # k)
        /\ (m_capacity >= 2 /\ m_tail - m_head < m_capacity /\ ProducerRetrying
                /\ Len(enqDone) % 2 = k)
              ~> (Len(enqDone) % 2 # k)

\* With two producers and two consumers running, every value has been
\* enqueued and dequeued, and the last try_dequeue of a consumer was refused.
C17_Witness ==
    /\ m_capacity = 2
    /\ nprod + ncons = 4
    /\ halted = 0
    /\ Len(enqDone) = nvals
    /\ Len(deqDone) = nvals
    /\ \E c \in Consumers : ret[c] = "false"

\* The payload assignment of producer p, which had claimed pos[p], has failed.
WriteFailed(p) == pc[p] = "threw"

\* A consumer has claimed sequence number n, or is about to try.
Taking(c, n) == pc[c] \in {"cas", "val", "pub"} /\ pos[c] = n

\* C18 as stated: if the payload assignment of the try_enqueue that claimed
\* sequence n fails partway and does not complete, a consumer afterwards
\* observes the slot's version as n + 1 and dequeues the partially written
\* payload.
C18_PartialPayloadDequeued ==
    \A p \in ProducerIds :
        WriteFailed(p) ~>
            \E c \in Consumers :
                /\ pc[c] = "pub"
                /\ pos[c] = pos[p]
                /\ out[c] = Partial

\* C18 amended: if the payload assignment of the try_enqueue that claimed
\* sequence n fails partway and does not complete, the call never stores
\* n + 1: the slot's version is never n + 1 afterwards, no consumer gets past
\* its version check for n, and head never passes n.  For capacity >= 2 the
\* version stays n and the partial payload stays in the slot, never copied
\* out.
C18_FailedWriteNeverPublished ==
    \A p \in Producers :
        WriteFailed(p) =>
            /\ version[Slot(pos[p])] # pos[p] + 1
            /\ \A c \in Consumers : ~Taking(c, pos[p])
            /\ m_head <= pos[p]
            /\ m_capacity >= 2 =>
                   /\ version[Slot(pos[p])] = pos[p]
                   /\ value[Slot(pos[p])] = Partial
                   /\ \A c \in Consumers : out[c] # Partial
                   /\ \A k \in DOMAIN deqDone : deqDone[k] # Partial

\* The assignment of sequence 0 failed; sequence 1 was then published by the
\* other producer, and a try_dequeue found slot 0 not ready and returned false.
C18_Witness ==
    /\ m_capacity = 2
    /\ \E p \in Producers : WriteFailed(p) /\ pos[p] = 0
    /\ HoldsPublished(1)
    /\ m_head = 0
    /\ \E c \in Consumers : pc[c] = "idle" /\ ret[c] = "false"

=============================================================================
